---- MODULE Spec2Model ----
(***************************************************************************)
(* Model of the two Azure Batch samples                                    *)
(*   Python/Batch/sample2_pools_and_resourcefiles.py  (direct mode)        *)
(*   Python/Batch/sample4_job_scheduler.py            (scheduled mode)     *)
(* as one sequential client of a storage account and a batch account.      *)
(* Time is counted in minutes since the module was imported (_START_TIME). *)
(***************************************************************************)
EXTENDS Integers, Sequences, FiniteSets, TLC

VARIABLES
    mode,                       \* "direct" (sample2) or "sched" (sample4)
    should_delete_container,    \* configuration flags
    should_delete_job,
    should_delete_pool,
    should_delete_job_schedule,
    run,                        \* which run of the sample against the account
    pc,                         \* position in execute_sample
    exc,                        \* exception in flight ("none" when none)
    outcome,                    \* "running", "returned", "raised"
    cleanup,                    \* the finally block has been entered
    bodyExc,                    \* the exception that left the try body
    now,                        \* wall clock, minutes
    sasExpiry,                  \* expiry of the last signed URL minted
    log,                        \* remote operations issued in this run
    containerExists,            \* storage account: the sample's container
    blobExists,                 \* storage account: simple_task.py in it
    pools, jobs, tasks, schedules,   \* batch account
    recent_job,                 \* job id returned by the job waiter
    waiter,                     \* which waiter is running
    deadline,                   \* its time_to_timeout_at
    remaining,                  \* non-terminal answers the service still gives
    waitN,                      \* N chosen when the waiter started
    polls, checks,              \* queries made / deadline checks made
    waitResult,                 \* "none", "Completed", "TimedOut"
    lastCreate,                 \* outcome of the last create_container call
    poolCreated,                \* create_pool_if_not_exist returned in this run
    collisions,                 \* kinds created under an id that existed
    suppressed                  \* kinds whose "already exists" was swallowed

cfg    == <<mode, should_delete_container, should_delete_job,
            should_delete_pool, should_delete_job_schedule>>
ctl    == <<pc, exc, outcome, cleanup, bodyExc>>
store  == <<containerExists, blobExists>>
batch  == <<pools, jobs, tasks, schedules>>
wvars  == <<waiter, deadline, remaining, waitN, polls, checks, waitResult>>
hist   == <<lastCreate, poolCreated, collisions, suppressed>>
vars   == <<cfg, run, ctl, now, sasExpiry, log, store, batch, recent_job,
            wvars, hist>>

\* ---------------------------------------------------------------- bounds
MaxRuns   == 2      \* runs of the sample in sequence against one account
MaxN      == 3      \* largest finite number of non-terminal polls
PollStep  == 1      \* minutes that pass between two polls in the model
Never     == 0 - 1  \* the service never reaches a terminal state

\* ------------------------------------------------------ program constants
SAS_HOURS_DIRECT      == 60   \* timedelta(hours=1), in minutes
TASK_WAIT_DIRECT      == 25
SAS_MINUTES_SCHED     == 30
JOB_WAIT_SCHED        == 5
TASK_WAIT_SCHED       == 25
START_TIME            == 0
END_TIME_OFFSET       == 30
SCHEDULE_WAIT_GRACE   == 10

END_TIME == START_TIME + END_TIME_OFFSET

pool_id == "PoolsAndResourceFilesPool"

job_id_fixed == <<"PoolsAndResourceFilesJob", 0>>

\* common.helpers.generate_unique_resource_name: prefix plus a suffix that
\* differs from one run to the next.
generate_unique_resource_name(prefix) == <<prefix, run>>

job_id == generate_unique_resource_name("PoolsAndResourceFilesJob")

job_schedule_id == generate_unique_resource_name("JobScheduler")

\* Exceptions the SDKs raise.
ComputeErrors == {"BatchError", "ClientError"}
StorageErrors == {"StorageError"}

Issue(op) == log' = Append(log, op)

InLog(op) == \E i \in 1..Len(log) : log[i] = op

\* ------------------------------------------------------------ try/finally
\* sample2: try ... finally.  Leaving the body, normally or by an exception,
\* enters the finally block at its first statement.
S2_Finally(e, b) ==
    /\ pc' = "fin_container"
    /\ exc' = e
    /\ bodyExc' = b
    /\ cleanup' = TRUE
    /\ outcome' = outcome

S2_RaiseNoFinally(kind) ==
    /\ pc' = "done"
    /\ exc' = kind
    /\ bodyExc' = kind
    /\ cleanup' = cleanup
    /\ outcome' = "raised"

\* A body whose exceptions are swallowed on the way to the finally block.
S2_RaiseSwallowed(kind) == S2_Finally("none", kind)

S2_Raise(kind) == S2_Finally(kind, kind)

\* sample4: try ... except BatchErrorException ... finally.
S4_Finally(e, b) ==
    /\ pc' = "fin_schedule"
    /\ exc' = e
    /\ bodyExc' = b
    /\ cleanup' = TRUE
    /\ outcome' = outcome

S4_RaiseCatchAll(kind) ==
    /\ pc' = "handler"
    /\ exc' = kind
    /\ bodyExc' = kind
    /\ UNCHANGED <<cleanup, outcome>>

S4_Raise(kind) ==
    IF kind = "BatchError"
    THEN /\ pc' = "handler"
         /\ exc' = kind
         /\ bodyExc' = kind
         /\ UNCHANGED <<cleanup, outcome>>
    ELSE S4_Finally(kind, kind)

Raise(kind) == IF mode = "direct" THEN S2_Raise(kind) ELSE S4_Raise(kind)

Goto(p) == pc' = p /\ UNCHANGED <<exc, outcome, cleanup, bodyExc>>

\* An exception raised inside the finally block leaves execute_sample at once
\* and replaces the exception in flight.
FinRaise(kind) ==
    /\ pc' = "done"
    /\ exc' = kind
    /\ outcome' = "raised"
    /\ UNCHANGED <<cleanup, bodyExc>>

\* ------------------------------------------------------------------- Init
Init ==
    /\ mode \in {"direct", "sched"}
    /\ should_delete_container \in BOOLEAN
    /\ should_delete_job \in (IF mode = "direct" THEN BOOLEAN ELSE {FALSE})
    /\ should_delete_pool \in (IF mode = "direct" THEN BOOLEAN ELSE {FALSE})
    /\ should_delete_job_schedule \in
           (IF mode = "sched" THEN BOOLEAN ELSE {FALSE})
    /\ run = 1
    /\ pc = IF mode = "direct" THEN "select_image" ELSE "upload"
    /\ exc = "none"
    /\ outcome = "running"
    /\ cleanup = FALSE
    /\ bodyExc = "none"
    /\ now = START_TIME
    /\ sasExpiry = START_TIME
    /\ log = <<>>
    /\ containerExists = FALSE
    /\ blobExists = FALSE
    /\ pools = {}
    /\ jobs = {}
    /\ tasks = {}
    /\ schedules = {}
    /\ recent_job = "none"
    /\ waiter = "none"
    /\ deadline = 0
    /\ remaining = 0
    /\ waitN = 0
    /\ polls = 0
    /\ checks = 0
    /\ waitResult = "none"
    /\ lastCreate = "none"
    /\ poolCreated = FALSE
    /\ collisions = {}
    /\ suppressed = {}

\* ------------------------------------------------------- resource staging
\* sample2's "except ResourceExistsError: pass" around create_container.
S2_ContainerExistsRaise(next) == S2_Raise("ResourceExists")

S2_ContainerExists(next) == Goto(next)

\* blob_service_client.create_container(_CONTAINER_NAME) inside try/except,
\* at both of its call sites in sample2.
S2_CreateContainer(at, next) ==
    /\ mode = "direct"
    /\ pc = at
    /\ Issue("container.create")
    /\ \E r \in {"served"} \cup StorageErrors :
         IF r = "served"
         THEN IF containerExists
              THEN /\ lastCreate' = "exists"
                   /\ S2_ContainerExists(next)
                   /\ UNCHANGED containerExists
              ELSE /\ lastCreate' = "created"
                   /\ containerExists' = TRUE
                   /\ Goto(next)
         ELSE /\ lastCreate' = "failed"
              /\ S2_Raise(r)
              /\ UNCHANGED containerExists
    /\ UNCHANGED <<cfg, run, now, sasExpiry, blobExists, batch, recent_job,
                   wvars, poolCreated, collisions, suppressed>>

\* common.helpers.upload_blob_and_create_sas: the Resource Stager.  It makes
\* sure the container exists, uploads the file and returns a URL signed
\* until the expiry it is given; any failure of the upload surfaces.
upload_blob_and_create_sas(at, next, expiryOffset) ==
    /\ pc = at
    /\ Issue("blob.upload")
    /\ \E r \in {"served"} \cup StorageErrors :
         IF r = "served"
         THEN /\ containerExists' = TRUE
              /\ blobExists' = TRUE
              /\ sasExpiry' = now + expiryOffset
              /\ Goto(next)
         ELSE /\ \E c \in {containerExists, TRUE} : containerExists' = c
              /\ UNCHANGED <<blobExists, sasExpiry>>
              /\ Raise(r)
    /\ UNCHANGED <<cfg, run, now, batch, recent_job, wvars, hist>>

S2_Upload(at, next) ==
    /\ mode = "direct"
    /\ upload_blob_and_create_sas(at, next, SAS_HOURS_DIRECT)

S4_Upload ==
    /\ mode = "sched"
    /\ upload_blob_and_create_sas("upload", "schedule_add", SAS_MINUTES_SCHED)

\* ------------------------------------------------------ sample2: the body
\* common.helpers.select_latest_verified_vm_image_with_node_agent_sku
S2_SelectImage ==
    /\ mode = "direct"
    /\ pc = "select_image"
    /\ Issue("account.list_supported_images")
    /\ \E r \in {"served"} \cup ComputeErrors :
         IF r = "served" THEN Goto("create_container_1") ELSE S2_Raise(r)
    /\ UNCHANGED <<cfg, run, now, sasExpiry, store, batch, recent_job,
                   wvars, hist>>

\* Where create_pool goes once the pool is there.
S2_AfterPoolSkipJob == "task_add"

S2_AfterPool == "job_add"

\* common.helpers.create_pool_if_not_exist(batch_client, pool): pool.add under
\* the fixed pool_id; a pool that exists already is not an error.
S2_PoolAdd ==
    /\ mode = "direct"
    /\ pc = "pool_add"
    /\ Issue("pool.add")
    /\ \E r \in {"served"} \cup ComputeErrors :
         IF r = "served"
         THEN /\ IF pool_id \in pools
                 THEN /\ collisions' = collisions \cup {"pool"}
                      /\ suppressed' = suppressed \cup {"pool"}
                      /\ UNCHANGED pools
                 ELSE /\ pools' = pools \cup {pool_id}
                      /\ UNCHANGED <<collisions, suppressed>>
              /\ poolCreated' = TRUE
              /\ Goto(S2_AfterPool)
         ELSE /\ S2_Raise(r)
              /\ UNCHANGED <<pools, poolCreated, collisions, suppressed>>
    /\ UNCHANGED <<cfg, run, now, sasExpiry, store, jobs, tasks, schedules,
                   recent_job, wvars, lastCreate>>

\* batch_client.job.add(job): an id that exists is refused by the service.
S2_JobAdd ==
    /\ mode = "direct"
    /\ pc = "job_add"
    /\ Issue("job.add")
    /\ \E r \in {"served"} \cup ComputeErrors :
         IF r = "served"
         THEN IF job_id \in jobs
              THEN /\ collisions' = collisions \cup {"job"}
                   /\ S2_Raise("BatchError")
                   /\ UNCHANGED jobs
              ELSE /\ jobs' = jobs \cup {job_id}
                   /\ Goto("create_container_2")
                   /\ UNCHANGED collisions
         ELSE /\ S2_Raise(r)
              /\ UNCHANGED <<jobs, collisions>>
    /\ UNCHANGED <<cfg, run, now, sasExpiry, store, pools, tasks, schedules,
                   recent_job, wvars, lastCreate, poolCreated, suppressed>>

\* batch_client.task.add(job_id=job.id, task=task)
S2_TaskAdd ==
    /\ mode = "direct"
    /\ pc = "task_add"
    /\ Issue("task.add")
    /\ \E r \in {"served"} \cup ComputeErrors :
         IF r = "served"
         THEN /\ tasks' = tasks \cup {job_id}
              /\ Goto("wait_tasks")
         ELSE /\ S2_Raise(r)
              /\ UNCHANGED tasks
    /\ UNCHANGED <<cfg, run, now, sasExpiry, store, pools, jobs, schedules,
                   recent_job, wvars, hist>>

\* ------------------------------------------------------ Completion Waiter
\* A waiter starts: time_to_timeout_at is fixed, and the service will answer
\* "not terminal" n times (or for ever) before it answers "terminal".
StartWaiter(kind, until) ==
    /\ waiter' = kind
    /\ deadline' = until
    /\ \E n \in (0..MaxN) \cup {Never} : remaining' = n /\ waitN' = n
    /\ polls' = 0
    /\ checks' = 0
    /\ waitResult' = "none"
    /\ Issue("wait." \o kind)
    /\ Goto("wait_check")

\* common.helpers.wait_for_tasks_to_complete(batch_client, job_id,
\* timedelta(minutes=25)) as sample2 calls it.
S2_CallWaitTasks ==
    /\ mode = "direct"
    /\ pc = "wait_tasks"
    /\ StartWaiter("tasks", now + TASK_WAIT_DIRECT)
    /\ UNCHANGED <<cfg, run, now, sasExpiry, store, batch, recent_job, hist>>

\* The waiter's answer once the service reports a terminal state.
TerminalEarly == remaining = 0 \/ remaining = 1

Terminal == remaining = 0

\* Where execute_sample goes on when a waiter returns.
WaitReturn ==
    CASE mode = "direct" -> Goto("task_list")
      [] mode = "sched" /\ waiter = "job" -> Goto("wait_tasks")
      [] mode = "sched" /\ waiter = "tasks" -> Goto("task_list")
      [] mode = "sched" /\ waiter = "schedule" -> S4_Finally("none", "none")

\* Top of the polling loop: elapsed time is looked at before every query;
\* past the deadline the waiter raises.
WaitCheck ==
    /\ pc = "wait_check"
    /\ checks' = checks + 1
    /\ IF now < deadline
       THEN /\ Goto("wait_poll")
            /\ UNCHANGED waitResult
       ELSE /\ waitResult' = "TimedOut"
            /\ Raise("Timeout")
    /\ UNCHANGED <<cfg, run, now, sasExpiry, log, store, batch, recent_job,
                   waiter, deadline, remaining, waitN, polls, hist>>

\* One query of the service, then either the return or the sleep.
WaitPoll ==
    /\ pc = "wait_poll"
    /\ polls' = polls + 1
    /\ \E r \in {"served"} \cup ComputeErrors :
         IF r = "served"
         THEN IF Terminal
              THEN /\ waitResult' = "Completed"
                   /\ WaitReturn
                   /\ IF waiter = "job"
                      THEN /\ recent_job' = <<"job-of", job_schedule_id>>
                           /\ jobs' = jobs \cup {<<"job-of", job_schedule_id>>}
                           /\ tasks' = tasks \cup {<<"job-of", job_schedule_id>>}
                      ELSE UNCHANGED <<recent_job, jobs, tasks>>
                   /\ UNCHANGED <<remaining, now>>
              ELSE /\ remaining' = IF remaining = Never THEN Never
                                   ELSE remaining - 1
                   /\ now' = now + PollStep
                   /\ Goto("wait_check")
                   /\ UNCHANGED <<waitResult, recent_job, jobs, tasks>>
         ELSE /\ Raise(r)
              /\ UNCHANGED <<waitResult, recent_job, jobs, tasks, remaining,
                             now>>
    /\ UNCHANGED <<cfg, run, sasExpiry, log, store, pools, schedules, waiter,
                   deadline, waitN, checks, hist>>

\* ------------------------------------------------------ output collection
\* tasks = batch_client.task.list(...); task_ids = [task.id for task in tasks]
TaskList ==
    /\ pc = "task_list"
    /\ Issue("task.list")
    /\ \E r \in {"served"} \cup ComputeErrors :
         IF r = "served" THEN Goto("print_output") ELSE Raise(r)
    /\ UNCHANGED <<cfg, run, now, sasExpiry, store, batch, recent_job,
                   wvars, hist>>

\* common.helpers.print_task_output; in sample2 it is the last statement of
\* the body, in sample4 the job-schedule wait follows it.
PrintTaskOutput ==
    /\ pc = "print_output"
    /\ Issue("file.get_from_task")
    /\ \E r \in {"served"} \cup ComputeErrors :
         IF r = "served"
         THEN IF mode = "direct"
              THEN S2_Finally("none", "none")
              ELSE Goto("wait_schedule")
         ELSE Raise(r)
    /\ UNCHANGED <<cfg, run, now, sasExpiry, store, batch, recent_job,
                   wvars, hist>>

\* --------------------------------------------------- sample2: the finally
\* if should_delete_container: blob_service_client.delete_container(...)
S2_FinContainer ==
    /\ mode = "direct"
    /\ pc = "fin_container"
    /\ IF should_delete_container
       THEN /\ Issue("container.delete")
            /\ \E r \in {"served"} \cup StorageErrors :
                 IF r = "served"
                 THEN IF containerExists
                      THEN /\ containerExists' = FALSE
                           /\ blobExists' = FALSE
                           /\ Goto("fin_job")
                      ELSE /\ FinRaise("ResourceNotFound")
                           /\ UNCHANGED store
                 ELSE /\ FinRaise(r)
                      /\ UNCHANGED store
       ELSE /\ Goto("fin_job")
            /\ UNCHANGED <<log, store>>
    /\ UNCHANGED <<cfg, run, now, sasExpiry, batch, recent_job, wvars, hist>>

\* if should_delete_job: batch_client.job.delete(job_id)
S2_FinJob ==
    /\ mode = "direct"
    /\ pc = "fin_job"
    /\ IF should_delete_job
       THEN /\ Issue("job.delete")
            /\ \E r \in {"served"} \cup ComputeErrors :
                 IF r = "served"
                 THEN IF job_id \in jobs
                      THEN /\ jobs' = jobs \ {job_id}
                           /\ tasks' = tasks \ {job_id}
                           /\ Goto("fin_pool")
                      ELSE /\ FinRaise("BatchError")
                           /\ UNCHANGED <<jobs, tasks>>
                 ELSE /\ FinRaise(r)
                      /\ UNCHANGED <<jobs, tasks>>
       ELSE /\ Goto("fin_pool")
            /\ UNCHANGED <<log, jobs, tasks>>
    /\ UNCHANGED <<cfg, run, now, sasExpiry, store, pools, schedules,
                   recent_job, wvars, hist>>

\* The condition that guards batch_client.pool.delete(pool_id).
S2_PoolGuardAlways == TRUE

S2_PoolGuard == should_delete_pool

\* if should_delete_pool: batch_client.pool.delete(pool_id)
S2_FinPool ==
    /\ mode = "direct"
    /\ pc = "fin_pool"
    /\ IF S2_PoolGuard
       THEN /\ Issue("pool.delete")
            /\ \E r \in {"served"} \cup ComputeErrors :
                 IF r = "served"
                 THEN IF pool_id \in pools
                      THEN /\ pools' = pools \ {pool_id}
                           /\ Goto("fin_exit")
                      ELSE /\ FinRaise("BatchError")
                           /\ UNCHANGED pools
                 ELSE /\ FinRaise(r)
                      /\ UNCHANGED pools
       ELSE /\ Goto("fin_exit")
            /\ UNCHANGED <<log, pools>>
    /\ UNCHANGED <<cfg, run, now, sasExpiry, store, jobs, tasks, schedules,
                   recent_job, wvars, hist>>

\* End of the finally block: the exception in flight, if any, goes on to the
\* caller; otherwise execute_sample returns.
FinExit ==
    /\ pc = "fin_exit"
    /\ pc' = "done"
    /\ outcome' = IF exc = "none" THEN "returned" ELSE "raised"
    /\ UNCHANGED <<exc, cleanup, bodyExc>>
    /\ UNCHANGED <<cfg, run, now, sasExpiry, log, store, batch, recent_job,
                   wvars, hist>>

\* ------------------------------------------------------ sample4: the body
\* batch_client.job_schedule.add(cloud_job_schedule=scheduled_job)
S4_ScheduleAdd ==
    /\ mode = "sched"
    /\ pc = "schedule_add"
    /\ Issue("job_schedule.add")
    /\ \E r \in {"served"} \cup ComputeErrors :
         IF r = "served"
         THEN IF job_schedule_id \in schedules
              THEN /\ collisions' = collisions \cup {"schedule"}
                   /\ S4_Raise("BatchError")
                   /\ UNCHANGED schedules
              ELSE /\ schedules' = schedules \cup {job_schedule_id}
                   /\ Goto("wait_job")
                   /\ UNCHANGED collisions
         ELSE /\ S4_Raise(r)
              /\ UNCHANGED <<schedules, collisions>>
    /\ UNCHANGED <<cfg, run, now, sasExpiry, store, pools, jobs, tasks,
                   recent_job, wvars, lastCreate, poolCreated, suppressed>>

\* common.helpers.wait_for_job_under_job_schedule(..., timedelta(minutes=5))
S4_CallWaitJob ==
    /\ mode = "sched"
    /\ pc = "wait_job"
    /\ StartWaiter("job", now + JOB_WAIT_SCHED)
    /\ UNCHANGED <<cfg, run, now, sasExpiry, store, batch, recent_job, hist>>

\* common.helpers.wait_for_tasks_to_complete(..., timedelta(minutes=25))
S4_CallWaitTasks ==
    /\ mode = "sched"
    /\ pc = "wait_tasks"
    /\ StartWaiter("tasks", now + TASK_WAIT_SCHED)
    /\ UNCHANGED <<cfg, run, now, sasExpiry, store, batch, recent_job, hist>>

\* common.helpers.wait_for_job_schedule_to_complete(...,
\* _END_TIME + timedelta(minutes=10)): the deadline is an instant.
S4_CallWaitSchedule ==
    /\ mode = "sched"
    /\ pc = "wait_schedule"
    /\ StartWaiter("schedule", END_TIME + SCHEDULE_WAIT_GRACE)
    /\ UNCHANGED <<cfg, run, now, sasExpiry, store, batch, recent_job, hist>>

\* except batchmodels.BatchErrorException as err: the loop over
\* err.error.values prints each value, and raises TypeError when the service
\* sent no values; either way the finally block follows.
S4_Handler ==
    /\ mode = "sched"
    /\ pc = "handler"
    /\ \E valuesIsNone \in BOOLEAN :
         IF valuesIsNone
         THEN S4_Finally("TypeError", bodyExc)
         ELSE S4_Finally("none", bodyExc)
    /\ UNCHANGED <<cfg, run, now, sasExpiry, log, store, batch, recent_job,
                   wvars, hist>>

\* --------------------------------------------------- sample4: the finally
\* if should_delete_job_schedule: batch_client.job_schedule.delete(...)
S4_FinSchedule ==
    /\ mode = "sched"
    /\ pc = "fin_schedule"
    /\ IF should_delete_job_schedule
       THEN /\ Issue("job_schedule.delete")
            /\ \E r \in {"served"} \cup ComputeErrors :
                 IF r = "served"
                 THEN IF job_schedule_id \in schedules
                      THEN /\ schedules' = schedules \ {job_schedule_id}
                           /\ jobs' = jobs \ {<<"job-of", job_schedule_id>>}
                           /\ tasks' = tasks \ {<<"job-of", job_schedule_id>>}
                           /\ Goto("fin_container")
                      ELSE /\ FinRaise("BatchError")
                           /\ UNCHANGED <<schedules, jobs, tasks>>
                 ELSE /\ FinRaise(r)
                      /\ UNCHANGED <<schedules, jobs, tasks>>
       ELSE /\ Goto("fin_container")
            /\ UNCHANGED <<log, schedules, jobs, tasks>>
    /\ UNCHANGED <<cfg, run, now, sasExpiry, store, pools, recent_job, wvars,
                   hist>>

\* if should_delete_container: try: delete_container(...)
\* except ResourceNotFoundError: pass
S4_FinContainer ==
    /\ mode = "sched"
    /\ pc = "fin_container"
    /\ IF should_delete_container
       THEN /\ Issue("container.delete")
            /\ \E r \in {"served"} \cup StorageErrors :
                 IF r = "served"
                 THEN /\ containerExists' = FALSE
                      /\ blobExists' = FALSE
                      /\ Goto("fin_exit")
                 ELSE /\ FinRaise(r)
                      /\ UNCHANGED store
       ELSE /\ Goto("fin_exit")
            /\ UNCHANGED <<log, store>>
    /\ UNCHANGED <<cfg, run, now, sasExpiry, batch, recent_job, wvars, hist>>

\* ----------------------------------------------------------------- reruns
\* The sample is started again, with the same configuration, against the
\* same two accounts.
Rerun ==
    /\ pc = "done"
    /\ run < MaxRuns
    /\ run' = run + 1
    /\ pc' = IF mode = "direct" THEN "select_image" ELSE "upload"
    /\ exc' = "none"
    /\ outcome' = "running"
    /\ cleanup' = FALSE
    /\ bodyExc' = "none"
    /\ now' = START_TIME
    /\ sasExpiry' = START_TIME
    /\ log' = <<>>
    /\ recent_job' = "none"
    /\ waiter' = "none"
    /\ deadline' = 0
    /\ remaining' = 0
    /\ waitN' = 0
    /\ polls' = 0
    /\ checks' = 0
    /\ waitResult' = "none"
    /\ lastCreate' = "none"
    /\ poolCreated' = FALSE
    /\ UNCHANGED <<cfg, store, batch, collisions, suppressed>>

Next ==
    \/ S2_SelectImage
    \/ S2_CreateContainer("create_container_1", "upload_1")
    \/ S2_Upload("upload_1", "pool_add")
    \/ S2_PoolAdd
    \/ S2_JobAdd
    \/ S2_CreateContainer("create_container_2", "upload_2")
    \/ S2_Upload("upload_2", "task_add")
    \/ S2_TaskAdd
    \/ S2_CallWaitTasks
    \/ S4_Upload
    \/ S4_ScheduleAdd
    \/ S4_CallWaitJob
    \/ S4_CallWaitTasks
    \/ S4_CallWaitSchedule
    \/ S4_Handler
    \/ WaitCheck
    \/ WaitPoll
    \/ TaskList
    \/ PrintTaskOutput
    \/ S2_FinContainer
    \/ S2_FinJob
    \/ S2_FinPool
    \/ S4_FinSchedule
    \/ S4_FinContainer
    \/ FinExit
    \/ Rerun

Spec == Init /\ [][Next]_vars

\* The interpreter runs the next statement: a run that can take a step does.
FairSpec == Init /\ [][Next]_vars /\ WF_vars(Next)

\* ================================================================ claims
Deletions == {"container.delete", "job.delete", "pool.delete",
              "job_schedule.delete"}

FinallyPcs == {"fin_container", "fin_job", "fin_pool", "fin_schedule",
               "fin_exit"}

WaitPcs == {"wait_check", "wait_poll"}

\* The deletions the configuration enables, in the order of the finally block.
EnabledDeletions ==
    IF mode = "direct"
    THEN (IF should_delete_container THEN <<"container.delete">> ELSE <<>>)
         \o (IF should_delete_job THEN <<"job.delete">> ELSE <<>>)
         \o (IF should_delete_pool THEN <<"pool.delete">> ELSE <<>>)
    ELSE (IF should_delete_job_schedule THEN <<"job_schedule.delete">>
          ELSE <<>>)
         \o (IF should_delete_container THEN <<"container.delete">> ELSE <<>>)

\* b is issued only after a has been issued.
Before(a, b) ==
    \A j \in 1..Len(log) : log[j] = b => \E i \in 1..(j - 1) : log[i] = a

\* C1: when execute_sample has ended, however its body ended, the finally
\* block was entered and the first deletion whose flag is true was invoked.
C1_TeardownReached ==
    /\ pc \in FinallyPcs => cleanup
    /\ pc = "done" =>
         /\ cleanup
         /\ EnabledDeletions # <<>> => InLog(Head(EnabledDeletions))

C1_Witness ==
    /\ pc = "done"
    /\ bodyExc = "Timeout"
    /\ EnabledDeletions # <<>>
    /\ InLog(Head(EnabledDeletions))

\* C2: when execute_sample has ended, every enabled deletion was attempted,
\* and a body that ended without an exception gives a normal return.
C2_BestEffortTeardown ==
    pc = "done" =>
      /\ \A i \in 1..Len(EnabledDeletions) : InLog(EnabledDeletions[i])
      /\ bodyExc = "none" => outcome = "returned"

\* C3: with shoulddeletepool false, pool.delete is never invoked and a pool
\* that create_pool left behind is still there; each deletion is invoked only
\* under its own flag.
C3_DeleteOnlyIfFlag ==
    /\ (mode = "direct" /\ ~should_delete_pool) =>
         /\ ~InLog("pool.delete")
         /\ poolCreated => pool_id \in pools
    /\ InLog("container.delete") => should_delete_container
    /\ InLog("job.delete") => should_delete_job
    /\ InLog("pool.delete") => should_delete_pool
    /\ InLog("job_schedule.delete") => should_delete_job_schedule

C3_Witness ==
    /\ pc = "done"
    /\ mode = "direct"
    /\ ~should_delete_pool
    /\ poolCreated
    /\ pool_id \in pools
    /\ InLog("job.delete")
    /\ InLog("container.delete")

\* C4: create_container on a container that exists is followed by the upload
\* with no exception in flight; "already exists" never leaves the body; any
\* other failure of create_container or of the upload leaves the body as the
\* storage error it is.
C4_StagingIdempotent ==
    /\ [](bodyExc # "ResourceExists" /\ exc # "ResourceExists")
    /\ [](lastCreate = "failed" => bodyExc = "StorageError" /\ cleanup)
    /\ [][(pc \in {"create_container_1", "create_container_2"}
            /\ lastCreate' = "exists" /\ log' # log)
          => (pc' \in {"upload_1", "upload_2"} /\ exc' = "none")]_vars
    /\ [][(pc \in {"upload_1", "upload_2"} /\ log' # log
            /\ pc' \notin {"pool_add", "task_add"})
          => (bodyExc' = "StorageError" /\ cleanup')]_vars

C4_Witness ==
    /\ run = 1
    /\ pc = "task_add"
    /\ lastCreate = "exists"
    /\ blobExists
    /\ sasExpiry = now + SAS_HOURS_DIRECT

\* C5: whenever a waiter is about to query the service, the signed URL of
\* the staged resource has not expired yet.
C5_SasOutlivesWaits == pc = "wait_poll" => now < sasExpiry

AllFlagsFalse ==
    /\ ~should_delete_container
    /\ ~should_delete_job
    /\ ~should_delete_pool
    /\ ~should_delete_job_schedule

\* C7 as claimed: with all deletion flags false no creation is ever issued
\* for an identifier that exists, and no "already exists" is suppressed.
C7_AllIdsUnique ==
    AllFlagsFalse => (collisions = {} /\ suppressed = {})

\* C7 amended: no job or job-schedule creation is issued for an identifier
\* that exists and none of their "already exists" results is suppressed;
\* only the fixed pool id can collide.
C7_JobAndScheduleIdsUnique ==
    /\ collisions \subseteq {"pool"}
    /\ suppressed \subseteq {"pool"}

C7_Witness ==
    /\ AllFlagsFalse
    /\ run = 2
    /\ \/ /\ InLog("job.add")
          /\ <<"PoolsAndResourceFilesJob", 1>> \in jobs
          /\ job_id \in jobs
       \/ /\ InLog("job_schedule.add")
          /\ <<"JobScheduler", 1>> \in schedules
          /\ job_schedule_id \in schedules

\* C8: a waiter that returned Completed made exactly N+1 queries, and a
\* deadline check precedes every query.
C8_ExactlyNPlusOnePolls ==
    /\ waitResult = "Completed" => polls = waitN + 1
    /\ pc = "wait_poll" => checks = polls + 1
    /\ pc = "wait_check" => checks = polls

C8_Witness ==
    /\ waitResult = "Completed"
    /\ waitN = 2
    /\ polls = 3
    /\ checks = 3

\* C9: every wait ends; once a waiter has timed out only the finally block
\* runs, no body operation is issued any more, and execute_sample ends by
\* raising.
C9_TimeoutIsFatal ==
    /\ [](waitResult = "TimedOut" =>
            /\ pc \in FinallyPcs \cup {"done"}
            /\ cleanup
            /\ pc = "done" => outcome = "raised")
    /\ [][waitResult = "TimedOut" =>
            (log' = log \/ log' = <<>>
               \/ log'[Len(log')] \in Deletions)]_vars
    /\ [](pc = "wait_poll" => now < deadline)
    /\ (pc \in WaitPcs) ~> (pc \notin WaitPcs)

C9_Witness ==
    /\ waitResult = "TimedOut"
    /\ waitN = Never
    /\ pc = "done"
    /\ outcome = "raised"
    /\ exc = "Timeout"
    /\ Len(log) > 0
    /\ log[Len(log)] \in Deletions

Phase(op) ==
    CASE op \in {"account.list_supported_images"} -> 0
      [] op \in {"container.create", "blob.upload"} -> 1
      [] op \in {"pool.add", "job.add", "task.add", "job_schedule.add"} -> 2
      [] op \in {"wait.tasks", "wait.job", "wait.schedule"} -> 3
      [] op \in {"task.list", "file.get_from_task"} -> 4
      [] op \in Deletions -> 5

\* C10 as claimed: the operations of a run are issued in phase order.
C10_PhaseOrder ==
    /\ \A i, j \in 1..Len(log) : i < j => Phase(log[i]) <= Phase(log[j])
    /\ Before("pool.add", "job.add")
    /\ Before("job.add", "task.add")

\* C10 amended: teardown comes last; a submission that references the staged
\* resource follows its upload; a wait follows the submission it waits on;
\* listing and output follow the task wait; pool, job, task are created in
\* that order.
C10_DependencyOrder ==
    /\ \A i, j \in 1..Len(log) :
         (i < j /\ log[i] \in Deletions) => log[j] \in Deletions
    /\ Before("blob.upload", "pool.add")
    /\ Before("blob.upload", "job_schedule.add")
    /\ \A j \in 1..Len(log) :
         log[j] = "task.add" => (j > 1 /\ log[j - 1] = "blob.upload")
    /\ Before("pool.add", "job.add")
    /\ Before("job.add", "task.add")
    /\ mode = "direct" => Before("task.add", "wait.tasks")
    /\ Before("job_schedule.add", "wait.job")
    /\ mode = "sched" => Before("wait.job", "wait.tasks")
    /\ Before("wait.tasks", "task.list")
    /\ Before("task.list", "file.get_from_task")
    /\ Before("file.get_from_task", "wait.schedule")

C10_Witness ==
    /\ pc = "done"
    /\ mode = "direct"
    /\ InLog("task.add")
    /\ InLog("file.get_from_task")
    /\ InLog("pool.delete")

====
